---- MODULE Spec2Model ----
(***************************************************************************)
(* locator-extractor: the element capture and locator-resolution pipeline  *)
(* of src/locator-extractor.js (selector synthesis, filter matching,       *)
(* element serialisation, CDP metadata fusion, deduplication, and the      *)
(* capture session of runExtractor).                                       *)
(*                                                                         *)
(* Text.  A JavaScript string is a sequence of chunks.  A chunk is one     *)
(* character ("a", "A", "|", "#", " "), or a word the code never looks     *)
(* into (an attribute name such as "class", the literal separators that    *)
(* cssPath emits).  JavaScript null and undefined of a string-valued field *)
(* are the reserved one-chunk sequences JsNull and Undefined, which no     *)
(* text of a page equals.                                                  *)
(***************************************************************************)
EXTENDS Integers, Sequences, FiniteSets, TLC

VARIABLES
    cfg,          \* options of runExtractor, fixed for the session
    pc,           \* position of runExtractor's main flow
    allLocators,  \* the collection of captured records (locator-extractor.js:730)
    allPrompts,   \* one prompt per pushed record (locator-extractor.js:731)
    pending,      \* console handlers suspended in `await getAdvancedMetadata`
    walk,         \* the walk loop suspended in its await: results, index, record
    clicks,       \* number of ELEMENT_CAPTURED messages handled so far
    expired,      \* Date.now() - lastActivity > timeout * 1000
    snapshot,     \* what the collate step computed and wrote, or NoSnapshot
    hist,         \* history: for each pushed record, who produced it and how
    fin,          \* inputs of the pure-function specifications
    fout          \* their results

vars == <<cfg, pc, allLocators, allPrompts, pending, walk, clicks, expired,
          snapshot, hist, fin, fout>>

-----------------------------------------------------------------------------
(* Bounds of the model *)

\* Ctrl/Cmd+clicks per session
MaxClicks == 2

\* elements of a tree handed to the selector functions
PathNodes == 4

-----------------------------------------------------------------------------
(* JavaScript values and string primitives *)

JsNull == <<"null">>
Undefined == <<"undefined">>

\* an object where a string is expected: what JSON.stringify leaves of the
\* SVGAnimatedString that className is on an SVG element, "{}"
JsObject == <<"{}">>

\* ToBoolean of a string-or-null value
Truthy(s) == s \notin {JsNull, Undefined, <<>>}

\* s || ""
OrEmpty(s) == IF Truthy(s) THEN s ELSE <<>>

\* s || null
OrNull(s) == IF Truthy(s) THEN s ELSE JsNull

\* a property read: undefined when the object has no such property
Get(obj, f) == IF f \in DOMAIN obj THEN obj[f] ELSE Undefined

LowerChunk(c) ==
    CASE c = "A" -> "a"
      [] c = "B" -> "b"
      [] c = "C" -> "c"
      [] c = "D" -> "d"
      [] c = "V" -> "v"
      [] c = "X" -> "x"
      [] c = "HTML" -> "html"
      [] OTHER -> c

\* String.prototype.toLowerCase
toLowerCase(s) == [i \in 1..Len(s) |-> LowerChunk(s[i])]

\* Array.prototype.join
RECURSIVE Join(_, _)
Join(parts, sep) ==
    IF Len(parts) = 0 THEN <<>>
    ELSE IF Len(parts) = 1 THEN parts[1]
    ELSE parts[1] \o sep \o Join(Tail(parts), sep)

\* String.prototype.split with a one-character separator
RECURSIVE Split(_, _)
Split(s, c) ==
    IF s = <<>> THEN << <<>> >>
    ELSE LET rest == Split(Tail(s), c)
         IN  IF Head(s) = c THEN << <<>> >> \o rest
             ELSE << <<Head(s)>> \o Head(rest) >> \o Tail(rest)

\* String.prototype.split(/\s+/): the interior empty parts of a split on
\* single blanks are the runs of blanks
SplitWs(s) ==
    LET p == Split(s, " ")
        keep == {i \in 1..Len(p) : i = 1 \/ i = Len(p) \/ p[i] # <<>>}
        RECURSIVE Pick(_)
        Pick(i) == IF i > Len(p) THEN <<>>
                   ELSE IF i \in keep THEN <<p[i]>> \o Pick(i + 1)
                   ELSE Pick(i + 1)
    IN  Pick(1)

\* the token set of a DOMTokenList: the non-empty blank-separated parts
ClassTokens(s) == {t \in {Split(s, " ")[i] : i \in 1..Len(Split(s, " "))} : t # <<>>}

RECURSIVE TrimStart(_)
TrimStart(s) == IF s # <<>> /\ Head(s) = " " THEN TrimStart(Tail(s)) ELSE s

RECURSIVE TrimEnd(_)
TrimEnd(s) ==
    IF s # <<>> /\ s[Len(s)] = " " THEN TrimEnd(SubSeq(s, 1, Len(s) - 1)) ELSE s

\* String.prototype.trim
Trim(s) == TrimEnd(TrimStart(s))

StartsWith(s, c) == s # <<>> /\ Head(s) = c
EndsWith(s, c) == s # <<>> /\ s[Len(s)] = c

\* val.replace(/['"]/g, "")
StripQuotes(s) == SelectSeq(s, LAMBDA c : c \notin {"'", "\""})

Includes(arr, x) == \E i \in 1..Len(arr) : arr[i] = x

\* csv.split(",").map(s => s.trim()).filter(Boolean)
ParseTokens(csv) ==
    LET parts == Split(csv, ",")
        trimmed == [i \in 1..Len(parts) |-> Trim(parts[i])]
    IN  SelectSeq(trimmed, LAMBDA t : t # <<>>)

\* tagFilterVal of the CLI: the token list, tokens trimmed, case kept.
\* An absent filter (null) and an empty list are both <<>>: every test of
\* the list is `!filters || !filters.length`.
tagFilterVal(csv) == IF Truthy(csv) THEN ParseTokens(csv) ELSE <<>>

\* `allowed` of __locatorScanAll and of the two inline walkers: the token
\* list of the CSV the node side joins again, tokens trimmed AND lowercased
ScanAllowed(csv) ==
    IF Truthy(csv)
    THEN LET parts == Split(csv, ",")
             mapped == [i \in 1..Len(parts) |-> toLowerCase(Trim(parts[i]))]
         IN  SelectSeq(mapped, LAMBDA t : t # <<>>)
    ELSE <<>>

-----------------------------------------------------------------------------
(* The page: a static DOM.  Node n of a dom is an element; dom[n].parent   *)
(* is its parent element, 0 when parentNode is the document (or null).     *)
(* Document order is index order, so the previous siblings of n are the    *)
(* smaller indices with the same parent.                                   *)

Digits == <<"1", "2", "3", "4", "5", "6", "7", "8", "9">>

\* the decimal text of a small positive number
NumStr(n) == <<Digits[n]>>

\* el.id: the reflected attribute, "" when absent
ElId(el) == IF <<"id">> \in DOMAIN el.attrs THEN el.attrs[<<"id">>] ELSE <<>>

\* the class attribute, "" when absent (what el.classList is built from)
ClassAttr(el) ==
    IF <<"class">> \in DOMAIN el.attrs THEN el.attrs[<<"class">>] ELSE <<>>

\* an element of the SVG namespace: its tagName is not uppercased
IsSvg(el) == el.tagName = "svg"

\* el.className: the class attribute on an HTML element, an
\* SVGAnimatedString object on an SVG element
ElClassName(el) == IF IsSvg(el) THEN JsObject ELSE ClassAttr(el)

\* el.getAttribute(name) of an HTML element: the name is lowercased, null
\* when absent
getAttribute(el, name) ==
    IF toLowerCase(name) \in DOMAIN el.attrs
    THEN el.attrs[toLowerCase(name)] ELSE JsNull

\* el.hasAttribute(name)
hasAttribute(el, name) == toLowerCase(name) \in DOMAIN el.attrs

\* the previous element siblings of n
PrevSiblings(dom, n) == {m \in 1..(n - 1) : dom[m].parent = dom[n].parent}

\* a cssPath whose loop goes on climbing after an element with an id
RECURSIVE cssPathFromNoBreak(_, _, _)
cssPathFromNoBreak(dom, n, path) ==
    IF n = 0 THEN path
    ELSE LET el  == dom[n]
             sel == toLowerCase(<<el.tagName>>)
         IN  IF ElId(el) # <<>>
             THEN cssPathFromNoBreak(dom, el.parent,
                                     <<sel \o <<"#">> \o ElId(el)>> \o path)
             ELSE LET nth == 1 + Cardinality({m \in PrevSiblings(dom, n) :
                                                 toLowerCase(<<dom[m].tagName>>) = sel})
                      seg == IF nth # 1
                             THEN sel \o <<":nth-of-type(">> \o NumStr(nth) \o <<")">>
                             ELSE sel
                  IN  cssPathFromNoBreak(dom, el.parent, <<seg>> \o path)

RECURSIVE cssPathFrom(_, _, _)
cssPathFrom(dom, n, path) ==
    IF n = 0 THEN path
    ELSE LET el  == dom[n]
             sel == toLowerCase(<<el.tagName>>)
         IN  IF ElId(el) # <<>>
             THEN <<sel \o <<"#">> \o ElId(el)>> \o path
             ELSE LET nth == 1 + Cardinality({m \in PrevSiblings(dom, n) :
                                                 toLowerCase(<<dom[m].tagName>>) = sel})
                      seg == IF nth # 1
                             THEN sel \o <<":nth-of-type(">> \o NumStr(nth) \o <<")">>
                             ELSE sel
                  IN  cssPathFrom(dom, el.parent, <<seg>> \o path)

\* cssPath of the capture script
cssPath(dom, n) == Join(cssPathFrom(dom, n, <<>>), <<" > ">>)

\* an absoluteXPath whose ordinal counts every preceding sibling
RECURSIVE xpathFromAnySibling(_, _, _)
xpathFromAnySibling(dom, n, comps) ==
    IF n = 0 THEN comps
    ELSE LET el  == dom[n]
             idx == 1 + Cardinality(PrevSiblings(dom, n))
             seg == toLowerCase(<<el.tagName>>) \o <<"[">> \o NumStr(idx) \o <<"]">>
         IN  xpathFromAnySibling(dom, el.parent, <<seg>> \o comps)

RECURSIVE xpathFrom(_, _, _)
xpathFrom(dom, n, comps) ==
    IF n = 0 THEN comps
    ELSE LET el  == dom[n]
             idx == 1 + Cardinality({m \in PrevSiblings(dom, n) :
                                         dom[m].tagName = el.tagName})
             seg == toLowerCase(<<el.tagName>>) \o <<"[">> \o NumStr(idx) \o <<"]">>
         IN  xpathFrom(dom, el.parent, <<seg>> \o comps)

\* absoluteXPath of the capture script
absoluteXPath(dom, n) == <<"/">> \o Join(xpathFrom(dom, n, <<>>), <<"/">>)

\* the style test shared by every visibility expression
StyleShown(el) ==
    el.display # "none" /\ el.visibility # "hidden" /\ el.opacity # "0"

\* serializeElement of the capture script (pointer capture payload).
\* Fields the pipeline never reads again (role, ariaLabel, dataset,
\* shadowHostChain, x, y, crossOrigin) are left out.
serializeElement(dom, n) ==
    LET el == dom[n]
    IN  [tag        |-> toLowerCase(<<el.tagName>>),
         id         |-> OrNull(ElId(el)),
         name       |-> OrNull(getAttribute(el, <<"name">>)),
         class      |-> OrNull(ElClassName(el)),
         text       |-> el.text,
         attributes |-> el.attrs,
         css        |-> cssPath(dom, n),
         xpath      |-> absoluteXPath(dom, n),
         visible    |-> ~(el.display = "none" \/ el.visibility = "hidden"
                          \/ el.opacity = "0" \/ el.w = 0 \/ el.h = 0),
         width      |-> el.w,
         height     |-> el.h]

-----------------------------------------------------------------------------
(* Filter matcher, page side and node side *)

\* the attribute test of one [attr] / [attr=val] token: `inside.split("=")`
\* destructured into attr and val
AttrName(f) == Split(SubSeq(f, 2, Len(f) - 1), "=")[1]
AttrVal(f) ==
    LET parts == Split(SubSeq(f, 2, Len(f) - 1), "=")
    IN  IF Len(parts) >= 2 THEN parts[2] ELSE Undefined

\* one token against a live element (the callback of filters.some in the page)
PageTokenMatches(el, f) ==
    IF StartsWith(f, ".") THEN Tail(f) \in ClassTokens(ClassAttr(el))
    ELSE IF StartsWith(f, "#") THEN ElId(el) = Tail(f)
    ELSE IF StartsWith(f, "[") /\ EndsWith(f, "]")
    THEN IF Truthy(AttrVal(f))
         THEN getAttribute(el, AttrName(f)) = StripQuotes(AttrVal(f))
         ELSE hasAttribute(el, AttrName(f))
    ELSE toLowerCase(<<el.tagName>>) = toLowerCase(f)

\* elementMatchesFilter of __locatorScanAll (and its two inline copies)
elementMatchesFilter(el, filters) ==
    Len(filters) = 0 \/ \E i \in 1..Len(filters) : PageTokenMatches(el, filters[i])

\* JavaScript null where an object is expected: a console payload that is
\* JSON null, the metadata of a selector that resolves to no node
JsNullObject == [isNull |-> TRUE]

\* one token against a console payload (the callback of filters.some in node)
NodeTokenMatches(elData, f) ==
    IF StartsWith(f, ".")
    THEN Includes(SplitWs(OrEmpty(Get(elData, "class"))), Tail(f))
    ELSE IF StartsWith(f, "#") THEN Get(elData, "id") = Tail(f)
    ELSE IF StartsWith(f, "[") /\ EndsWith(f, "]")
    THEN IF Truthy(AttrVal(f))
         THEN /\ "attributes" \in DOMAIN elData
              /\ AttrName(f) \in DOMAIN elData.attributes
              /\ elData.attributes[AttrName(f)] = StripQuotes(AttrVal(f))
         ELSE /\ "attributes" \in DOMAIN elData
              /\ AttrName(f) \in DOMAIN elData.attributes
    ELSE Truthy(Get(elData, "tag")) /\ toLowerCase(elData.tag) = toLowerCase(f)

\* the callback throws: `cls.split` when the payload's class is not a string
NodeTokenThrows(elData, f) ==
    StartsWith(f, ".") /\ OrEmpty(Get(elData, "class")) = JsObject

\* elementMatchesFilterNode: filters.some calls the callback token by token
\* and stops at the first token that matches; a throw (of the callback, or
\* of any property read on a null payload) ends in the catch, which returns
\* false
elementMatchesFilterNode(elData, filters) ==
    IF Len(filters) = 0 THEN TRUE
    ELSE IF elData = JsNullObject THEN FALSE
    ELSE \E i \in 1..Len(filters) :
            /\ ~NodeTokenThrows(elData, filters[i])
            /\ NodeTokenMatches(elData, filters[i])
            /\ \A j \in 1..(i - 1) : ~NodeTokenThrows(elData, filters[j])

-----------------------------------------------------------------------------
(* The bulk walks, evaluated in the page *)

\* the elements idx of the document, in document order
WalkResults(idx) ==
    [i \in 1..Cardinality(idx) |->
        CHOOSE n \in idx : Cardinality({m \in idx : m < n}) = i - 1]

\* a pre-filter that takes an element with one zero dimension as visible
isVisibleEitherDimension(el) ==
    ~(el.w = 0 /\ el.h = 0)
    /\ el.display # "none" /\ el.visibility # "hidden" /\ el.opacity # "0"

\* isVisible of __locatorScanAll, and the test of the fallback walker
isVisible(el) == el.w > 0 /\ el.h > 0 /\ StyleShown(el)

\* `visible` as serialize of __locatorScanAll and the hidden scan compute it
LooseVisible(el) == ~(el.w = 0 /\ el.h = 0) /\ StyleShown(el)

\* serialize of __locatorScanAll
scanSerialize(dom, n) ==
    LET el == dom[n]
    IN  [tag        |-> toLowerCase(<<el.tagName>>),
         id         |-> OrNull(ElId(el)),
         name       |-> OrNull(getAttribute(el, <<"name">>)),
         class      |-> OrNull(ElClassName(el)),
         text       |-> el.text,
         visible    |-> LooseVisible(el),
         css        |-> cssPath(dom, n),
         xpath      |-> absoluteXPath(dom, n),
         attributes |-> el.attrs]

\* the elements the full-page walk keeps (__locatorScanAll and the fallback
\* walker apply the same two tests), in document order
scanKept(dom, csv) ==
    WalkResults({n \in 1..Len(dom) :
        elementMatchesFilter(dom[n], ScanAllowed(csv)) /\ isVisible(dom[n])})

\* window.__locatorScanAll(tagFilterCsv)
locatorScanAll(dom, csv) ==
    LET kept == scanKept(dom, csv)
    IN  [i \in 1..Len(kept) |-> scanSerialize(dom, kept[i])]

\* the record of the fallback walker of the auto-extract block
fallbackRecord(dom, n) ==
    LET el == dom[n]
    IN  [tag        |-> toLowerCase(<<el.tagName>>),
         id         |-> OrNull(ElId(el)),
         name       |-> OrNull(getAttribute(el, <<"name">>)),
         class      |-> OrNull(ElClassName(el)),
         text       |-> el.text,
         css        |-> toLowerCase(<<el.tagName>>),
         xpath      |-> JsNull,
         attributes |-> el.attrs,
         visible    |-> TRUE]

\* the fallback walker: used when __locatorScanAll is not installed
fallbackWalk(dom, csv) ==
    LET kept == scanKept(dom, csv)
    IN  [i \in 1..Len(kept) |-> fallbackRecord(dom, kept[i])]

\* the record of the hidden-element scan: no css, no xpath
hiddenRecord(dom, n) ==
    LET el == dom[n]
    IN  [tag        |-> toLowerCase(<<el.tagName>>),
         id         |-> OrNull(ElId(el)),
         name       |-> OrNull(getAttribute(el, <<"name">>)),
         class      |-> OrNull(ElClassName(el)),
         text       |-> el.text,
         attributes |-> el.attrs,
         visible    |-> FALSE]

\* the elements the hidden-element scan keeps, in document order
hiddenKept(dom, csv) ==
    WalkResults({n \in 1..Len(dom) :
        elementMatchesFilter(dom[n], ScanAllowed(csv)) /\ ~LooseVisible(dom[n])})

\* the hidden-element scan
hiddenScan(dom, csv) ==
    LET kept == hiddenKept(dom, csv)
    IN  [i \in 1..Len(kept) |-> hiddenRecord(dom, kept[i])]

-----------------------------------------------------------------------------
(* Metadata fusion over the CDP side channel.  A cdp value is what the     *)
(* five client.send calls of one getAdvancedMetadata call do:              *)
(*   docThrows, queryThrows : BOOLEAN; nodeId : 0 when no node matches;    *)
(*   style, ax, listeners   : [throws |-> TRUE] or the reply.              *)

Throws(reply) == "throws" \in DOMAIN reply

\* styles[name] || null, styles built from the computedStyle list
StyleOrNull(computedStyle, name) ==
    LET hits == {i \in 1..Len(computedStyle) : computedStyle[i].name = name}
    IN  IF hits = {} THEN JsNull
        ELSE OrNull(computedStyle[CHOOSE i \in hits : \A j \in hits : j <= i].value)

\* the object getAdvancedMetadata returns when the node is found
MetadataObject(computedStyle, nodes, listeners) ==
    LET accNode == IF Len(nodes) > 0 THEN nodes[1] ELSE [none |-> TRUE]
    IN  [zIndex          |-> StyleOrNull(computedStyle, "z-index"),
         opacity         |-> StyleOrNull(computedStyle, "opacity"),
         display         |-> StyleOrNull(computedStyle, "display"),
         visibility      |-> StyleOrNull(computedStyle, "visibility"),
         pointerEvents   |-> StyleOrNull(computedStyle, "pointer-events"),
         cursor          |-> StyleOrNull(computedStyle, "cursor"),
         backgroundColor |-> StyleOrNull(computedStyle, "background-color"),
         color           |-> StyleOrNull(computedStyle, "color"),
         font            |-> StyleOrNull(computedStyle, "font-family"),
         ariaRole        |-> OrNull(Get(accNode, "role")),
         ariaName        |-> OrNull(Get(accNode, "name")),
         listeners       |-> [i \in 1..Len(listeners) |-> listeners[i].type]]

\* a getAdvancedMetadata whose sub-steps have no .catch of their own
getAdvancedMetadataNoDefaults(selector, cdp) ==
    IF ~Truthy(selector) THEN JsNullObject
    ELSE IF cdp.docThrows THEN [error |-> "DOM.getDocument"]
    ELSE IF cdp.queryThrows THEN [error |-> "DOM.querySelector"]
    ELSE IF cdp.nodeId = 0 THEN JsNullObject
    ELSE IF Throws(cdp.style) THEN [error |-> "CSS.getComputedStyleForNode"]
    ELSE IF Throws(cdp.ax) THEN [error |-> "Accessibility.getPartialAXTree"]
    ELSE IF Throws(cdp.listeners) THEN [error |-> "DOMDebugger.getEventListeners"]
    ELSE MetadataObject(cdp.style.computedStyle, cdp.ax.nodes, cdp.listeners.listeners)

\* getAdvancedMetadata(page, client, selector)
getAdvancedMetadata(selector, cdp) ==
    IF ~Truthy(selector) THEN JsNullObject
    ELSE IF cdp.docThrows THEN [error |-> "DOM.getDocument"]
    ELSE IF cdp.queryThrows THEN [error |-> "DOM.querySelector"]
    ELSE IF cdp.nodeId = 0 THEN JsNullObject
    ELSE MetadataObject(
             IF Throws(cdp.style) THEN <<>> ELSE cdp.style.computedStyle,
             IF Throws(cdp.ax) THEN <<>> ELSE cdp.ax.nodes,
             IF Throws(cdp.listeners) THEN <<>> ELSE cdp.listeners.listeners)

\* `if (meta) r.advanced = meta`
AttachAdvanced(r, meta) ==
    IF meta = JsNullObject THEN r ELSE ("advanced" :> meta) @@ r

-----------------------------------------------------------------------------
(* Deduplication and the prompt *)

\* a key that tells a fused record from a bare one
identityKeyWithAdvanced(item) ==
    toLowerCase(Join(<<OrEmpty(Get(item, "pageUrl")),
                       OrEmpty(Get(item, "tag")),
                       OrEmpty(Get(item, "id")),
                       OrEmpty(Get(item, "name")),
                       OrEmpty(Get(item, "css")),
                       OrEmpty(Get(item, "xpath")),
                       IF "advanced" \in DOMAIN item THEN <<"advanced">> ELSE <<>> >>,
                     <<"|">>))

\* the key of deduplicate
identityKey(item) ==
    toLowerCase(Join(<<OrEmpty(Get(item, "pageUrl")),
                       OrEmpty(Get(item, "tag")),
                       OrEmpty(Get(item, "id")),
                       OrEmpty(Get(item, "name")),
                       OrEmpty(Get(item, "css")),
                       OrEmpty(Get(item, "xpath"))>>, <<"|">>))

RECURSIVE dedupFrom(_, _, _)
dedupFrom(arr, i, seen) ==
    IF i > Len(arr) THEN <<>>
    ELSE LET key == identityKey(arr[i])
         IN  IF key \in seen THEN dedupFrom(arr, i + 1, seen)
             ELSE <<arr[i]>> \o dedupFrom(arr, i + 1, seen \cup {key})

\* a deduplicate that lets the last record of a key win
RECURSIVE lastWinsFrom(_, _)
lastWinsFrom(arr, i) ==
    IF i > Len(arr) THEN <<>>
    ELSE IF \E j \in (i + 1)..Len(arr) : identityKey(arr[j]) = identityKey(arr[i])
         THEN lastWinsFrom(arr, i + 1)
         ELSE <<arr[i]>> \o lastWinsFrom(arr, i + 1)

deduplicateLastWins(arr) == lastWinsFrom(arr, 1)

\* deduplicate(arr)
deduplicate(arr) == dedupFrom(arr, 1, {})

\* buildPrompt: the template of the framework around the record's JSON
buildPrompt(payload, framework, promptType) ==
    [framework |-> framework, promptType |-> promptType, json |-> payload]

-----------------------------------------------------------------------------
(* The session of runExtractor on one page *)

NoAttrs == [a \in {} |-> <<>>]

\* html > a#X.c (visible), a (display: none), b (zero width)
Page ==
    << [parent |-> 0, tagName |-> "HTML", attrs |-> NoAttrs, text |-> <<>>,
        w |-> 8, h |-> 8, display |-> "block", visibility |-> "visible",
        opacity |-> "1"],
       [parent |-> 1, tagName |-> "A",
        attrs |-> (<<"id">> :> <<"X">>) @@ (<<"class">> :> <<"c">>),
        text |-> <<"t">>,
        w |-> 2, h |-> 1, display |-> "inline", visibility |-> "visible",
        opacity |-> "1"],
       [parent |-> 1, tagName |-> "A", attrs |-> NoAttrs, text |-> <<>>,
        w |-> 0, h |-> 0, display |-> "none", visibility |-> "visible",
        opacity |-> "1"],
       [parent |-> 1, tagName |-> "B", attrs |-> NoAttrs, text |-> <<>>,
        w |-> 0, h |-> 1, display |-> "inline", visibility |-> "visible",
        opacity |-> "1"] >>

\* page.url()
PageUrl == <<"u">>

\* an element the pointer can hit
Clickable(el) ==
    el.display # "none" /\ el.visibility # "hidden" /\ el.w > 0 /\ el.h > 0

\* the --tagFilter values of the sessions explored
SessionFilters == {JsNull, <<"a">>}

\* the --timeout values (seconds) of the sessions explored
SessionTimeouts == {0, 1}

\* options: installed = the capture script runs in the page; cdp = useCDP
\* and the CDP session was created
Options ==
    [installed : BOOLEAN, cdp : BOOLEAN, autoExtract : BOOLEAN,
     scanHidden : BOOLEAN, tagFilter : {tagFilterVal(c) : c \in SessionFilters},
     timeout : SessionTimeouts, framework : {"playwright"},
     promptType : {"locator"}]

\* the sessions in which pointer captures race with the fusion round trips
\* of the full-page walk; they are explored apart (SpecRace)
RaceOption(c) == c.installed /\ c.cdp /\ c.autoExtract

Configs == {c \in Options : ~RaceOption(c)}

RaceConfigs ==
    {c \in Options : RaceOption(c) /\ ~c.scanHidden /\ c.timeout = 0
                                   /\ c.tagFilter = <<>>}

CdpOk ==
    [docThrows |-> FALSE, queryThrows |-> FALSE, nodeId |-> 1,
     style |-> [computedStyle |-> << [name |-> "opacity", value |-> <<"1">>],
                                    [name |-> "display", value |-> <<"inline">>] >>],
     ax |-> [nodes |-> << [role |-> <<"link">>, name |-> <<"t">>] >>],
     listeners |-> [listeners |-> << [type |-> "click"] >>]]

\* what the side channel does in the sessions explored: all five calls
\* answer; the selector matches no node; DOM.querySelector throws
SessionCdp ==
    { CdpOk,
      [CdpOk EXCEPT !.nodeId = 0],
      [CdpOk EXCEPT !.queryThrows = TRUE] }

\* in the race sessions: all five calls answer, or the call ends early
\* because the selector matches no node
RaceCdp == { CdpOk, [CdpOk EXCEPT !.nodeId = 0] }

\* the clock the timestamps are read from: it advances with the clicks
Now == clicks

\* how one fusion ended, for the history
FusionKind(selector, cdp) ==
    IF ~Truthy(selector) THEN "notRequested"
    ELSE IF cdp.docThrows \/ cdp.queryThrows THEN "threw"
    ELSE IF cdp.nodeId = 0 THEN "noNode"
    ELSE "meta"

NoSnapshot == [taken |-> FALSE]
NoWalk == [kind |-> "none"]

\* tagFilter ? tagFilter.join(",") : null  (an array is always truthy)
FiltersCsv == Join(cfg.tagFilter, <<",">>)

\* r.pageUrl = page.url(); r.timestamp = new Date().toISOString()
Stamp(r, t) == ("pageUrl" :> PageUrl) @@ ("timestamp" :> t) @@ r

\* a push that files a pointer capture by its click time, before the
\* records of later clicks
InsertAt(seq, k, x) == SubSeq(seq, 1, k - 1) \o <<x>> \o SubSeq(seq, k, Len(seq))

PushInClickOrder(st, r, h) ==
    LET later == {i \in 1..Len(st.hist) :
                      st.hist[i].src = "click" /\ h.src = "click"
                      /\ st.hist[i].click > h.click}
        k == IF later = {} THEN Len(st.hist) + 1
             ELSE CHOOSE i \in later : \A j \in later : i <= j
    IN  [st EXCEPT !.locs = InsertAt(@, k, r),
                   !.prompts = InsertAt(@, k, buildPrompt(r, cfg.framework, cfg.promptType)),
                   !.hist = InsertAt(@, k, h @@ ("done" :> Len(st.hist) + 1))]

\* a push that builds a prompt only for a record whose key is new
PushPromptIfNew(st, r, h) ==
    [st EXCEPT !.locs = Append(@, r),
               !.prompts = IF \E i \in 1..Len(st.locs) :
                                   identityKey(st.locs[i]) = identityKey(r)
                            THEN @
                            ELSE Append(@, buildPrompt(r, cfg.framework, cfg.promptType)),
               !.hist = Append(@, h @@ ("done" :> Len(st.hist) + 1))]

\* allLocators.push(r); allPrompts.push(buildPrompt(r, ...)), with the
\* history entry of r
Push(st, r, h) ==
    [st EXCEPT !.locs = Append(@, r),
               !.prompts = Append(@, buildPrompt(r, cfg.framework, cfg.promptType)),
               !.hist = Append(@, h @@ ("done" :> Len(st.hist) + 1))]

\* the `for (const r of results)` loop of a walk from record i on, until
\* its next await or its end
RECURSIVE RunWalk(_, _, _, _)
RunWalk(kind, results, i, st) ==
    IF i > Len(results) THEN [st EXCEPT !.walk = NoWalk]
    ELSE LET r == Stamp(results[i], Now)
         IN  IF cfg.cdp /\ Truthy(Get(r, "css"))
             THEN [st EXCEPT !.walk = [kind |-> kind, results |-> results,
                                       i |-> i, r |-> r]]
             ELSE RunWalk(kind, results, i + 1,
                          Push(st, r, [src |-> kind, click |-> 0,
                                       fusion |-> "notRequested"]))

Cur == [locs |-> allLocators, prompts |-> allPrompts, hist |-> hist, walk |-> walk]

\* where the main flow goes when a walk block is over
AfterWalk(kind) ==
    IF kind = "auto" /\ cfg.scanHidden THEN "hiddenEval" ELSE "waitStop"

Install(st, kind) ==
    /\ allLocators' = st.locs
    /\ allPrompts' = st.prompts
    /\ hist' = st.hist
    /\ walk' = st.walk
    /\ pc' = IF st.walk = NoWalk THEN AfterWalk(kind) ELSE "walkAwait"

StartPc(c) ==
    IF c.autoExtract THEN "autoEval"
    ELSE IF c.scanHidden THEN "hiddenEval" ELSE "waitStop"

\* the state when the console handler has been registered
Start(configs) ==
    /\ cfg \in configs
    /\ pc = StartPc(cfg)
    /\ allLocators = <<>>
    /\ allPrompts = <<>>
    /\ pending = {}
    /\ walk = NoWalk
    /\ clicks = 0
    /\ expired = FALSE
    /\ snapshot = NoSnapshot
    /\ hist = <<>>
    /\ fin = <<>>
    /\ fout = <<>>

Init == Start(Configs)

InitRace == Start(RaceConfigs)

\* what follows ELEMENT_CAPTURED: in the console message: the JSON of the
\* serialized element, "null" when serializeElement returned null, or a text
\* that is not JSON
ConsoleBodies == {"element", "null", "unparsable"}

\* JSON.parse(raw) of a body that parses
ParsedPayload(n, body) ==
    IF body = "element" THEN serializeElement(Page, n) ELSE JsNullObject

\* the console handler throws before its push: JSON.parse fails, or the
\* payload that passed the filter test is null and the stamp is set on it;
\* its catch logs the failure
HandlerThrows(n, body) ==
    \/ body = "unparsable"
    \/ /\ ParsedPayload(n, body) = JsNullObject
       /\ elementMatchesFilterNode(ParsedPayload(n, body), cfg.tagFilter)

\* a console handler without its try/catch: the rejection of the handler is
\* unhandled and ends the process
CaptureUncaught(n, body) ==
    /\ cfg.installed
    /\ pc # "done"
    /\ clicks < MaxClicks
    /\ Clickable(Page[n])
    /\ clicks' = clicks + 1
    /\ IF HandlerThrows(n, body)
       THEN /\ pc' = "done"
            /\ UNCHANGED <<allLocators, allPrompts, pending, expired, hist>>
       ELSE /\ pc' = pc
            /\ LET payload == ParsedPayload(n, body)
                   stamped == Stamp(payload, clicks + 1)
               IN  IF ~elementMatchesFilterNode(payload, cfg.tagFilter)
                   THEN UNCHANGED <<allLocators, allPrompts, pending, expired, hist>>
                   ELSE IF cfg.cdp /\ Truthy(stamped.css)
                   THEN /\ pending' = pending \cup {[click |-> clicks + 1, payload |-> stamped]}
                        /\ UNCHANGED <<allLocators, allPrompts, expired, hist>>
                   ELSE LET st == Push(Cur, stamped, [src |-> "click", click |-> clicks + 1,
                                                      fusion |-> "notRequested"])
                        IN  /\ allLocators' = st.locs
                            /\ allPrompts' = st.prompts
                            /\ hist' = st.hist
                            /\ expired' = FALSE
                            /\ UNCHANGED pending
    /\ UNCHANGED <<cfg, walk, snapshot, fin, fout>>

\* a Ctrl/Cmd+click on element n: the page logs ELEMENT_CAPTURED and the
\* console handler runs up to its await (or to its end)
Capture(n, body) ==
    /\ cfg.installed
    /\ pc # "done"
    /\ clicks < MaxClicks
    /\ Clickable(Page[n])
    /\ clicks' = clicks + 1
    /\ LET payload == ParsedPayload(n, body)
           stamped == Stamp(payload, clicks + 1)
       IN  IF HandlerThrows(n, body)
           THEN UNCHANGED <<allLocators, allPrompts, pending, expired, hist>>
           ELSE IF ~elementMatchesFilterNode(payload, cfg.tagFilter)
           THEN UNCHANGED <<allLocators, allPrompts, pending, expired, hist>>
           ELSE IF cfg.cdp /\ Truthy(stamped.css)
           THEN /\ pending' = pending \cup {[click |-> clicks + 1, payload |-> stamped]}
                /\ UNCHANGED <<allLocators, allPrompts, expired, hist>>
           ELSE LET st == Push(Cur, stamped, [src |-> "click", click |-> clicks + 1,
                                              fusion |-> "notRequested"])
                IN  /\ allLocators' = st.locs
                    /\ allPrompts' = st.prompts
                    /\ hist' = st.hist
                    /\ expired' = FALSE
                    /\ UNCHANGED pending
    /\ UNCHANGED <<cfg, pc, walk, snapshot, fin, fout>>

\* the fusion call of a suspended console handler resolves: the handler
\* attaches the result, pushes the record and resets the idle timer.  The
\* session is followed until the browser is closed.
ConsoleFusionResolve(p, cdp) ==
    /\ p \in pending
    /\ pc # "done"
    /\ LET meta == getAdvancedMetadata(p.payload.css, cdp)
           st == Push(Cur, AttachAdvanced(p.payload, meta),
                      [src |-> "click", click |-> p.click,
                       fusion |-> FusionKind(p.payload.css, cdp)])
       IN  /\ allLocators' = st.locs
           /\ allPrompts' = st.prompts
           /\ hist' = st.hist
    /\ pending' = pending \ {p}
    /\ expired' = FALSE
    /\ UNCHANGED <<cfg, pc, walk, clicks, snapshot, fin, fout>>

\* page.evaluate of the auto-extract block returns (or throws): the loop
\* over the results runs up to its first await
AutoEvalReturn(ok) ==
    /\ pc = "autoEval"
    /\ LET results == IF ~ok THEN <<>>
                      ELSE IF cfg.installed THEN locatorScanAll(Page, FiltersCsv)
                      ELSE fallbackWalk(Page, FiltersCsv)
       IN  Install(RunWalk("auto", results, 1, Cur), "auto")
    /\ UNCHANGED <<cfg, pending, clicks, expired, snapshot, fin, fout>>

\* page.evaluate of the hidden-scan block returns (or throws)
HiddenEvalReturn(ok) ==
    /\ pc = "hiddenEval"
    /\ LET results == IF ok THEN hiddenScan(Page, FiltersCsv) ELSE <<>>
       IN  Install(RunWalk("hidden", results, 1, Cur), "hidden")
    /\ UNCHANGED <<cfg, pending, clicks, expired, snapshot, fin, fout>>

\* the fusion call the walk loop awaits resolves: the loop attaches the
\* result, pushes the record and goes on to its next await or its end
WalkFusionResolve(cdp) ==
    /\ pc = "walkAwait"
    /\ LET meta == getAdvancedMetadata(walk.r.css, cdp)
           st == Push(Cur, AttachAdvanced(walk.r, meta),
                      [src |-> walk.kind, click |-> 0,
                       fusion |-> FusionKind(walk.r.css, cdp)])
       IN  Install(RunWalk(walk.kind, walk.results, walk.i + 1, st), walk.kind)
    /\ UNCHANGED <<cfg, pending, clicks, expired, snapshot, fin, fout>>

\* time passes without activity until the timeout is exceeded.  Only the
\* inactivity watcher reads the clock, and it exists from the stop wait on:
\* time that passed before counts as passing here.
TimePasses ==
    /\ cfg.timeout > 0
    /\ pc = "waitStop"
    /\ ~expired
    /\ expired' = TRUE
    /\ UNCHANGED <<cfg, pc, allLocators, allPrompts, pending, walk, clicks,
                   snapshot, hist, fin, fout>>

\* a collate step that counts the visible records of the whole collection
CollateVisibleFromAll(locs, prompts) ==
    LET unique == deduplicate(locs)
        visibleCount == Cardinality({i \in 1..Len(locs) : locs[i].visible})
    IN  [taken |-> TRUE,
         unique |-> unique,
         prompts |-> prompts,
         totalSeen |-> Len(locs),
         uniqueCount |-> Len(unique),
         visibleCount |-> visibleCount,
         hiddenCount |-> Len(unique) - visibleCount]

\* a collate step whose totalSeen is read from the deduplicated list
CollateSeenFromUnique(locs, prompts) ==
    LET unique == deduplicate(locs)
        visibleCount == Cardinality({i \in 1..Len(unique) : unique[i].visible})
    IN  [taken |-> TRUE,
         unique |-> unique,
         prompts |-> prompts,
         totalSeen |-> Len(unique),
         uniqueCount |-> Len(unique),
         visibleCount |-> visibleCount,
         hiddenCount |-> Len(unique) - visibleCount]

\* a collate step that gives up, leaving no snapshot, when a record carries
\* the error indicator of a failed fusion
CollateFailsOnFusionError(locs, prompts) ==
    LET unique == deduplicate(locs)
        visibleCount == Cardinality({i \in 1..Len(unique) : unique[i].visible})
    IN  IF \E i \in 1..Len(locs) :
               "advanced" \in DOMAIN locs[i] /\ "error" \in DOMAIN locs[i].advanced
        THEN [taken |-> FALSE]
        ELSE [taken |-> TRUE,
              unique |-> unique,
              prompts |-> prompts,
              totalSeen |-> Len(locs),
              uniqueCount |-> Len(unique),
              visibleCount |-> visibleCount,
              hiddenCount |-> Len(unique) - visibleCount]

\* the collate step after the stop wait: deduplicate, write, count
Collate(locs, prompts) ==
    LET unique == deduplicate(locs)
        visibleCount == Cardinality({i \in 1..Len(unique) : unique[i].visible})
    IN  [taken |-> TRUE,
         unique |-> unique,
         prompts |-> prompts,
         totalSeen |-> Len(locs),
         uniqueCount |-> Len(unique),
         visibleCount |-> visibleCount,
         hiddenCount |-> Len(unique) - visibleCount]

TakeSnapshot ==
    /\ snapshot' = Collate(allLocators, allPrompts)
    /\ pc' = "cleanup"
    /\ UNCHANGED <<cfg, allLocators, allPrompts, pending, walk, clicks, expired,
                   hist, fin, fout>>

\* a stop listener that is attached before the walks: Enter is taken at any
\* position of the main flow
StdinDataAnyTime ==
    /\ pc \notin {"cleanup", "done"}
    /\ TakeSnapshot

\* Enter on stdin while runExtractor waits for it
StdinData ==
    /\ pc = "waitStop"
    /\ TakeSnapshot

\* the inactivity watcher fires and emits "data" on stdin
Watchdog ==
    /\ pc = "waitStop"
    /\ cfg.timeout > 0
    /\ expired
    /\ TakeSnapshot

\* a cleanup that collates and writes the output once more
CleanupResave ==
    /\ pc = "cleanup"
    /\ pc' = "done"
    /\ snapshot' = Collate(allLocators, allPrompts)
    /\ UNCHANGED <<cfg, allLocators, allPrompts, pending, walk, clicks, expired,
                   hist, fin, fout>>

\* stopExtractorCleanup returns: CDP detached, browser closed
CleanupDone ==
    /\ pc = "cleanup"
    /\ pc' = "done"
    /\ UNCHANGED <<cfg, allLocators, allPrompts, pending, walk, clicks, expired,
                   snapshot, hist, fin, fout>>

\* the sessions in which every console message carries a serialized element
Next ==
    \/ \E n \in 1..Len(Page) : Capture(n, "element")
    \/ \E p \in pending, cdp \in SessionCdp : ConsoleFusionResolve(p, cdp)
    \/ \E ok \in BOOLEAN : AutoEvalReturn(ok)
    \/ \E ok \in BOOLEAN : HiddenEvalReturn(ok)
    \/ \E cdp \in SessionCdp : WalkFusionResolve(cdp)
    \/ TimePasses
    \/ StdinData
    \/ Watchdog
    \/ CleanupDone

Spec == Init /\ [][Next]_vars

NextRace ==
    \/ \E n \in 1..Len(Page) : Capture(n, "element")
    \/ \E p \in pending, cdp \in RaceCdp : ConsoleFusionResolve(p, cdp)
    \/ \E ok \in BOOLEAN : AutoEvalReturn(ok)
    \/ \E cdp \in RaceCdp : WalkFusionResolve(cdp)
    \/ StdinData
    \/ CleanupDone

SpecRace == InitRace /\ [][NextRace]_vars

\* the sessions of Spec with console messages of every kind: also those
\* whose payload is null or does not parse
NextFail ==
    \/ \E n \in 1..Len(Page), body \in ConsoleBodies : Capture(n, body)
    \/ \E p \in pending, cdp \in SessionCdp : ConsoleFusionResolve(p, cdp)
    \/ \E ok \in BOOLEAN : AutoEvalReturn(ok)
    \/ \E ok \in BOOLEAN : HiddenEvalReturn(ok)
    \/ \E cdp \in SessionCdp : WalkFusionResolve(cdp)
    \/ TimePasses
    \/ StdinData
    \/ Watchdog
    \/ CleanupDone

SpecFail == Init /\ [][NextFail]_vars

-----------------------------------------------------------------------------
(* Specifications of the pure functions: Init draws the inputs, the one    *)
(* action applies the function.                                            *)

NotRun == [run |-> FALSE]

PureStart(inputs) ==
    /\ fin \in inputs
    /\ fout = NotRun
    /\ cfg = [pure |-> TRUE]
    /\ pc = "pure"
    /\ allLocators = <<>>
    /\ allPrompts = <<>>
    /\ pending = {}
    /\ walk = NoWalk
    /\ clicks = 0
    /\ expired = FALSE
    /\ snapshot = NoSnapshot
    /\ hist = <<>>

PureStep(result) ==
    /\ fout = NotRun
    /\ fout' = result
    /\ UNCHANGED <<cfg, pc, allLocators, allPrompts, pending, walk, clicks,
                   expired, snapshot, hist, fin>>

\* records as the hidden scan and the walks leave them in allLocators:
\* stamped, with or without css and xpath
DedupIds == {JsNull, <<"x">>, <<"X">>, <<"x", "|", "y">>}
DedupNames == {JsNull, <<"y">>, <<"y", "|">>}
DedupRecords ==
    [pageUrl : {PageUrl}, tag : {<<"a">>}, id : DedupIds, name : DedupNames,
     text : {<<>>, <<"t">>}, visible : {FALSE}, timestamp : {0}]
    \cup
    [pageUrl : {PageUrl}, tag : {<<"a">>}, id : DedupIds, name : DedupNames,
     text : {<<>>}, visible : {TRUE}, timestamp : {0},
     css : {<<"a">>}, xpath : {JsNull, <<"/", "a", "[", "1", "]">>}]

InitDedup == PureStart([a : DedupRecords, b : DedupRecords])

ApplyDedup == PureStep([run |-> TRUE, unique |-> deduplicate(<<fin.a, fin.b>>)])

SpecDedup == InitDedup /\ [][ApplyDedup]_vars

\* what the five CDP calls of one getAdvancedMetadata call may do
CdpReplies ==
    [docThrows : BOOLEAN, queryThrows : BOOLEAN, nodeId : {0, 1},
     style : {[throws |-> TRUE], CdpOk.style},
     ax : {[throws |-> TRUE], CdpOk.ax, [nodes |-> <<>>]},
     listeners : {[throws |-> TRUE], CdpOk.listeners}]

InitFuse == PureStart([selector : {<<>>, JsNull, <<"a">>}, cdp : CdpReplies])

ApplyFuse ==
    PureStep([run |-> TRUE, result |-> getAdvancedMetadata(fin.selector, fin.cdp)])

SpecFuse == InitFuse /\ [][ApplyFuse]_vars

\* one-element documents and --tagFilter strings
FilterElements ==
    { [parent |-> 0, tagName |-> t, attrs |-> a, text |-> <<>>, w |-> 1, h |-> 1,
       display |-> "inline", visibility |-> "visible", opacity |-> "1"] :
      t \in {"A", "B"},
      a \in { NoAttrs,
              <<"id">> :> <<"X">>,
              <<"id">> :> <<"x">>,
              <<"class">> :> <<"c">>,
              <<"class">> :> <<"C", " ", "d">>,
              <<"d">> :> <<"v">>,
              <<"d">> :> <<"V">>,
              (<<"id">> :> <<"x">>) @@ (<<"class">> :> <<"c">>) @@ (<<"d">> :> <<>>) } }

FilterCsvs ==
    { <<"a">>, <<"A">>, <<"b">>,
      <<"#", "x">>, <<"#", "X">>,
      <<".", "c">>, <<".", "C">>,
      <<"[", "d", "]">>, <<"[", "D", "]">>,
      <<"[", "d", "=", "v", "]">>, <<"[", "d", "=", "'", "V", "'", "]">>,
      <<"b", ",", " ", "#", "x">>, <<" ", ",">> }

InitFilter == PureStart([el : FilterElements, csv : FilterCsvs])

\* the same --tagFilter string at the two call sites: the console handler
\* gets the CLI-parsed list, the page the list joined with "," again
ApplyFilter ==
    PureStep([run |-> TRUE,
              node |-> elementMatchesFilterNode(serializeElement(<<fin.el>>, 1),
                                                tagFilterVal(fin.csv)),
              page |-> elementMatchesFilter(fin.el,
                           ScanAllowed(Join(tagFilterVal(fin.csv), <<",">>)))])

SpecFilter == InitFilter /\ [][ApplyFilter]_vars

\* the trees of PathNodes elements: element 1 is the top, the parent of
\* every other element comes before it
PathParents ==
    {p \in [1..PathNodes -> 0..(PathNodes - 1)] :
        p[1] = 0 /\ \A k \in 2..PathNodes : p[k] >= 1 /\ p[k] < k}

\* a tree, one of its elements, and whether the tree is the document's
\* (the parentNode of the top element is the document) or a detached one
\* (the parentNode of the top element is null)
PathInputs ==
    { [dom |-> [k \in 1..PathNodes |->
                   [parent |-> p[k],
                    tagName |-> IF k = 1 THEN (IF att THEN "HTML" ELSE "A") ELSE t[k],
                    attrs |-> IF k > 1 /\ i[k] THEN <<"id">> :> <<"x">> ELSE NoAttrs]],
        n |-> n,
        attached |-> att] :
      p \in PathParents, t \in [2..PathNodes -> {"A", "B"}],
      i \in [2..PathNodes -> BOOLEAN], n \in 1..PathNodes, att \in BOOLEAN }

InitPath == PureStart(PathInputs)

ApplyPath ==
    PureStep([run |-> TRUE,
              css |-> cssPath(fin.dom, fin.n),
              xpath |-> absoluteXPath(fin.dom, fin.n)])

SpecPath == InitPath /\ [][ApplyPath]_vars

\* one-element documents for the matchers: HTML elements and an SVG element
MatchElements ==
    { [parent |-> 0, tagName |-> t, attrs |-> a, text |-> <<>>, w |-> 1, h |-> 1,
       display |-> "inline", visibility |-> "visible", opacity |-> "1"] :
      t \in {"A", "svg"},
      a \in { NoAttrs,
              <<"class">> :> <<"c">>,
              <<"class">> :> <<"d", " ", "c">>,
              <<"id">> :> <<"x">>,
              <<"d">> :> <<"v">>,
              <<"d">> :> <<>>,
              <<"d">> :> <<"v", "=", "v">> } }

MatchTokens ==
    { <<"a">>, <<"A">>, <<"svg">>,
      <<".", "c">>, <<".">>,
      <<"#", "x">>, <<"#">>,
      <<"[", "d", "]">>,
      <<"[", "d", "=", "v", "]">>,
      <<"[", "d", "=", "'", "v", "'", "]">>,
      <<"[", "d", "=", "v", "=", "v", "]">>,
      <<"[", "d", "=", "]">> }

\* filter sets of up to two tokens
MatchFilters ==
    {<<>>} \cup {<<f>> : f \in MatchTokens}
           \cup {<<f, g>> : f \in MatchTokens, g \in MatchTokens}

InitMatch == PureStart([el : MatchElements, filters : MatchFilters])

\* the console handler's matcher on the capture payload of the element, the
\* page's matcher on the element
ApplyMatch ==
    PureStep([run |-> TRUE,
              node |-> elementMatchesFilterNode(serializeElement(<<fin.el>>, 1),
                                                fin.filters),
              page |-> elementMatchesFilter(fin.el, fin.filters)])

SpecMatch == InitMatch /\ [][ApplyMatch]_vars

\* the number of elements of the documents the walks are run on
WalkNodes == 3

\* what an element below <html> may be: tag, id, box, display; an element
\* that is not displayed has an empty box
WalkShapes ==
    {e \in [tagName : {"A", "B"}, hasId : BOOLEAN, w : {0, 1}, h : {0, 1},
            display : {"inline", "none"}] :
        e.display = "none" => (e.w = 0 /\ e.h = 0)}

\* static documents: <html> and its children, and the filter CSV
WalkInputs ==
    { [dom |-> [k \in 1..WalkNodes |->
                   IF k = 1
                   THEN [parent |-> 0, tagName |-> "HTML", attrs |-> NoAttrs,
                         text |-> <<>>, w |-> 8, h |-> 8, display |-> "block",
                         visibility |-> "visible", opacity |-> "1"]
                   ELSE [parent |-> 1, tagName |-> e[k].tagName,
                         attrs |-> IF e[k].hasId THEN <<"id">> :> <<"x">> ELSE NoAttrs,
                         text |-> <<>>, w |-> e[k].w, h |-> e[k].h,
                         display |-> e[k].display,
                         visibility |-> "visible", opacity |-> "1"]],
        csv |-> csv] :
      e \in [2..WalkNodes -> WalkShapes], csv \in SessionFilters }

InitWalks == PureStart(WalkInputs)

\* the records each producer makes on the document, stamped as the node side
\* stamps them, with the element each record was made from
ApplyWalks ==
    PureStep([run |-> TRUE,
              autoOf |-> scanKept(fin.dom, fin.csv),
              hiddenOf |-> hiddenKept(fin.dom, fin.csv),
              scan |-> [i \in 1..Len(locatorScanAll(fin.dom, fin.csv)) |->
                           Stamp(locatorScanAll(fin.dom, fin.csv)[i], 0)],
              fallback |-> [i \in 1..Len(fallbackWalk(fin.dom, fin.csv)) |->
                               Stamp(fallbackWalk(fin.dom, fin.csv)[i], 0)],
              hidden |-> [i \in 1..Len(hiddenScan(fin.dom, fin.csv)) |->
                             Stamp(hiddenScan(fin.dom, fin.csv)[i], 0)],
              click |-> [n \in {m \in 1..WalkNodes : Clickable(fin.dom[m])} |->
                            Stamp(serializeElement(fin.dom, n), 0)]])

SpecWalks == InitWalks /\ [][ApplyWalks]_vars

-----------------------------------------------------------------------------
(* Properties *)

KeysOf(arr) == {identityKey(arr[i]) : i \in 1..Len(arr)}

\* the positions at which a key occurs for the first time
FirstSeen(arr) ==
    {i \in 1..Len(arr) : \A j \in 1..(i - 1) : identityKey(arr[j]) # identityKey(arr[i])}

\* the records that had arrived when the snapshot was taken
Arrived == SubSeq(allLocators, 1, snapshot.totalSeen)

HasAdvanced(r) == "advanced" \in DOMAIN r

HasErrorIndicator(r) == HasAdvanced(r) /\ "error" \in DOMAIN r.advanced

SnapshotStep == ~snapshot.taken /\ snapshot'.taken

\* C1: the unique list of the snapshot holds, for every identity key (as
\* deduplicate computes it), exactly the record that arrived first with
\* that key, field for field, and the unique records keep their relative
\* arrival order; a later duplicate is neither merged in nor kept.
C1_FirstSeenWins ==
    snapshot.taken =>
        LET arr == Arrived
            firsts == FirstSeen(arr)
            Rank(i) == Cardinality({j \in firsts : j <= i})
        IN  /\ Len(snapshot.unique) = Cardinality(firsts)
            /\ \A i \in firsts : snapshot.unique[Rank(i)] = arr[i]

\* a snapshot in which a record without advanced metadata was kept and a
\* later duplicate of it, carrying advanced metadata, was dropped
C1_RicherDuplicateDropped ==
    /\ snapshot.taken
    /\ \E i, j \in 1..snapshot.totalSeen :
          /\ i < j
          /\ i \in FirstSeen(Arrived)
          /\ identityKey(allLocators[i]) = identityKey(allLocators[j])
          /\ ~HasAdvanced(allLocators[i])
          /\ HasAdvanced(allLocators[j])
          /\ \E u \in 1..Len(snapshot.unique) : snapshot.unique[u] = allLocators[i]

\* the (pageUrl, tag, id, name, cssSelector, xpathSelector) tuple of a
\* record after case folding, absent and null components as ""
FoldedTuple(item) ==
    << toLowerCase(OrEmpty(Get(item, "pageUrl"))),
       toLowerCase(OrEmpty(Get(item, "tag"))),
       toLowerCase(OrEmpty(Get(item, "id"))),
       toLowerCase(OrEmpty(Get(item, "name"))),
       toLowerCase(OrEmpty(Get(item, "css"))),
       toLowerCase(OrEmpty(Get(item, "xpath"))) >>

\* C2: deduplicate treats two records as duplicates (keeps one of the two)
\* exactly when their folded identity tuples are equal.
C2_DuplicatesIffTuplesEqual ==
    fout.run => ((Len(fout.unique) = 1) <=> (FoldedTuple(fin.a) = FoldedTuple(fin.b)))

\* C3: when the snapshot is taken, totalSeen is the number of submissions
\* made and the unique count is the number of distinct identity keys
\* submitted; each submission adds to the unique records 0 when its key was
\* submitted before and 1 otherwise.
C3_Counters ==
    [][SnapshotStep =>
          /\ snapshot'.totalSeen = Len(hist)
          /\ snapshot'.uniqueCount = Cardinality(KeysOf(allLocators))
          /\ \A n \in 1..Len(allLocators) :
                Len(deduplicate(SubSeq(allLocators, 1, n)))
                  - Len(deduplicate(SubSeq(allLocators, 1, n - 1)))
                = IF identityKey(allLocators[n]) \in KeysOf(SubSeq(allLocators, 1, n - 1))
                  THEN 0 ELSE 1]_vars

\* a snapshot of a session in which a key was submitted twice
C3_DuplicateCounted ==
    /\ snapshot.taken
    /\ snapshot.totalSeen >= 2
    /\ snapshot.uniqueCount < snapshot.totalSeen
    /\ \E i, j \in 1..snapshot.totalSeen :
          i # j /\ identityKey(allLocators[i]) = identityKey(allLocators[j])

\* C4: a record whose fusion was requested and whose cssSelector resolved
\* to no node is in the snapshot with the error indicator attached.
C4_NoNodeCarriesError ==
    snapshot.taken =>
        \A i \in FirstSeen(Arrived) :
            hist[i].fusion = "noNode" =>
                \E u \in 1..Len(snapshot.unique) :
                    /\ identityKey(snapshot.unique[u]) = identityKey(allLocators[i])
                    /\ HasErrorIndicator(snapshot.unique[u])

IsErrorIndicator(r) == DOMAIN r = {"error"}

IsMetadata(r) == "zIndex" \in DOMAIN r

StyleFields ==
    {"zIndex", "opacity", "display", "visibility", "pointerEvents", "cursor",
     "backgroundColor", "color", "font"}

NodeFound == 
    /\ Truthy(fin.selector)
    /\ ~fin.cdp.docThrows
    /\ ~fin.cdp.queryThrows
    /\ fin.cdp.nodeId # 0

NextWalkRecordAppended ==
    /\ walk' = walk
    /\ Len(allLocators') = Len(allLocators) + 1
    /\ hist'[Len(hist')].src = walk.kind
    /\ identityKey(allLocators'[Len(allLocators')])
         = identityKey(Stamp(walk.results[walk.i + 1], Now))

\* a pointer capture is appended while the fusion call of the walk is
\* still in flight
CaptureAppendedDuringWalkFusion ==
    /\ walk' = walk
    /\ Len(allLocators') = Len(allLocators) + 1
    /\ hist'[Len(hist')].src = "click"

\* C6: while the fusion call of a walk record is in flight, the next record
\* of that walk and any received pointer capture can be appended without
\* that call resolving first.
C6_FusionNeverBlocks ==
    /\ (pc = "walkAwait" /\ walk.i < Len(walk.results))
          => ENABLED (NextRace /\ NextWalkRecordAppended)
    /\ (pc = "walkAwait" /\ pending # {})
          => ENABLED (NextRace /\ CaptureAppendedDuringWalkFusion)

\* the record of a received capture is among the unique records
InSnapshot(r, snap) ==
    \E u \in 1..Len(snap.unique) :
        /\ identityKey(snap.unique[u]) = identityKey(r)
        /\ snap.unique[u].timestamp <= r.timestamp

\* C7: a capture received and admitted by the filter before the stop is in
\* the collection from before its fusion call starts, hence in the snapshot
\* also when that call is still in flight at the stop.
C7_AdmittedBeforeStopInSnapshot ==
    [][SnapshotStep => \A p \in pending : InSnapshot(p.payload, snapshot')]_vars

\* C8: the snapshot is computed in one step from the collection as it is at
\* the stop, and never changes afterwards, whatever arrives or resolves.
C8_SnapshotFrozen ==
    [][/\ snapshot.taken => snapshot' = snapshot
       /\ SnapshotStep =>
             /\ snapshot'.unique = deduplicate(allLocators)
             /\ snapshot'.totalSeen = Len(allLocators)
             /\ allLocators' = allLocators]_vars

\* after the snapshot a capture was received and pushed, and a fusion call
\* that was in flight at the stop resolved and pushed its record
C8_ArrivalsAfterSnapshot ==
    /\ snapshot.taken
    /\ \E i, j \in (snapshot.totalSeen + 1)..Len(allLocators) :
          /\ hist[i].src = "click" /\ hist[i].fusion # "notRequested"
          /\ hist[j].src = "click" /\ i # j

\* C9: the collection is in completion order: the k-th record is the one
\* whose producing operation was the k-th to complete, whatever the order
\* of the clicks and of the document.
C9_CompletionOrder ==
    /\ Len(hist) = Len(allLocators)
    /\ \A k \in 1..Len(hist) :
          /\ hist[k].done = k
          /\ hist[k].src = "click" => allLocators[k].timestamp = hist[k].click

\* the capture clicked second was appended before the one clicked first,
\* and a capture sits between two records of the full-page walk
C9_ClickOrderInverted ==
    /\ \E i, j \in 1..Len(hist) :
          /\ i < j
          /\ hist[i].src = "click" /\ hist[j].src = "click"
          /\ hist[i].click > hist[j].click
    /\ \E a, b, c \in 1..Len(hist) :
          /\ a < b /\ b < c
          /\ hist[a].src = "auto" /\ hist[b].src = "click" /\ hist[c].src = "auto"

\* C10: for the same --tagFilter string the node-side matcher on the
\* capture payload of an element and the page-side matcher on the element
\* give the same result.
C10_MatchersAgree ==
    fout.run => fout.node = fout.page

\* the capture payload of the element the matchers were applied to
MatchRecord == serializeElement(<<fin.el>>, 1)

\* C11: the matcher is the OR of its tokens: its result is that of "some
\* token alone matches", it is the same for the filter set in the opposite
\* order, and it is true for the empty filter set.
C11_OrOfTokens ==
    fout.run =>
        LET fs == fin.filters
            rev == [i \in 1..Len(fs) |-> fs[Len(fs) + 1 - i]]
        IN  /\ fs = <<>> => (fout.node /\ fout.page)
            /\ fout.node = elementMatchesFilterNode(MatchRecord, rev)
            /\ fout.page = elementMatchesFilter(fin.el, rev)
            /\ fs # <<>> =>
                  /\ fout.node = \E i \in 1..Len(fs) :
                                     elementMatchesFilterNode(MatchRecord, <<fs[i]>>)
                  /\ fout.page = \E i \in 1..Len(fs) :
                                     elementMatchesFilter(fin.el, <<fs[i]>>)

IsAttrToken(f) == StartsWith(f, "[") /\ EndsWith(f, "]")

\* name and value of an attribute token: the text before the first "=" and
\* all the text after it
TokenAttrName(f) ==
    LET inside == SubSeq(f, 2, Len(f) - 1)
    IN  Split(inside, "=")[1]

TokenHasValue(f) == \E i \in 2..(Len(f) - 1) : f[i] = "="

TokenAttrValue(f) ==
    LET inside == SubSeq(f, 2, Len(f) - 1)
    IN  SubSeq(inside, Len(TokenAttrName(f)) + 2, Len(inside))

\* C12: [name=value] matches exactly the records whose attributes[name] is
\* the value with its quotes stripped, [name] exactly the records that have
\* the attribute, whatever its value.
C12_AttributeToken ==
    (fout.run /\ Len(fin.filters) = 1 /\ IsAttrToken(fin.filters[1])) =>
        LET f == fin.filters[1]
            attrs == MatchRecord.attributes
            expected ==
                /\ TokenAttrName(f) \in DOMAIN attrs
                /\ TokenHasValue(f) =>
                      attrs[TokenAttrName(f)] = StripQuotes(TokenAttrValue(f))
        IN  fout.node = expected /\ fout.page = expected

\* C13: a bare token matches exactly the records with that tag, ignoring
\* case; .c exactly the records with c among the blank-separated tokens of
\* their class (none when there is no class); #i exactly the records whose
\* id is i.
C13_TokenVariants ==
    (fout.run /\ Len(fin.filters) = 1 /\ ~IsAttrToken(fin.filters[1])) =>
        LET f == fin.filters[1]
            r == MatchRecord
            expected ==
                IF StartsWith(f, ".")
                THEN r.class # JsNull /\ Tail(f) \in ClassTokens(r.class)
                ELSE IF StartsWith(f, "#") THEN r.id = Tail(f)
                ELSE toLowerCase(r.tag) = toLowerCase(f)
        IN  fout.node = expected

\* C14: every record of the snapshot carries a non-empty cssSelector,
\* whichever producer made it.
C14_CssNeverEmpty ==
    snapshot.taken =>
        \A u \in 1..Len(snapshot.unique) : Truthy(Get(snapshot.unique[u], "css"))

\* the element of the page a record was made from (the elements of Page
\* differ in tag or attributes)
SourceNode(r) ==
    CHOOSE n \in 1..Len(Page) :
        toLowerCase(<<Page[n].tagName>>) = r.tag /\ Page[n].attrs = r.attributes

\* C18: a record with visible = true was made from an element whose box
\* has width > 0 and height > 0 and whose style is none of display:none,
\* visibility:hidden, opacity 0.
C18_VisibleImpliesBox ==
    \A i \in 1..Len(allLocators) :
        allLocators[i].visible =>
            LET el == Page[SourceNode(allLocators[i])]
            IN  el.w > 0 /\ el.h > 0 /\ StyleShown(el)

\* the collection holds visible records of the walk and of a pointer
\* capture and a record that is not visible, from a page with an element
\* that has one zero dimension only
C18_VisibleFromEachProducer ==
    /\ \E i \in 1..Len(allLocators) : hist[i].src = "auto" /\ allLocators[i].visible
    /\ \E i \in 1..Len(allLocators) : hist[i].src = "click" /\ allLocators[i].visible
    /\ \E i \in 1..Len(allLocators) : ~allLocators[i].visible
    /\ \E n \in 1..Len(Page) : LooseVisible(Page[n]) /\ ~isVisible(Page[n])

\* C19: visibleCount is the number of unique records with visible = true,
\* hiddenCount the number of the other unique records; they add up to the
\* unique count, which is at most totalSeen.
C19_CountsFromUnique ==
    snapshot.taken =>
        LET shown == {u \in 1..Len(snapshot.unique) : snapshot.unique[u].visible}
            other == {u \in 1..Len(snapshot.unique) : ~snapshot.unique[u].visible}
        IN  /\ snapshot.visibleCount = Cardinality(shown)
            /\ snapshot.hiddenCount = Cardinality(other)
            /\ snapshot.visibleCount + snapshot.hiddenCount = snapshot.uniqueCount
            /\ snapshot.uniqueCount = Len(snapshot.unique)
            /\ snapshot.uniqueCount <= snapshot.totalSeen

\* a snapshot with visible and hidden unique records and a dropped visible
\* duplicate
C19_DuplicateNotCounted ==
    /\ snapshot.taken
    /\ snapshot.visibleCount > 0
    /\ snapshot.hiddenCount > 0
    /\ \E i \in 1..snapshot.totalSeen :
          i \notin FirstSeen(Arrived) /\ allLocators[i].visible

\* the keys of the unique records and the counts, for a collection
Decisions(locs) ==
    LET c == Collate(locs, <<>>)
    IN  [keys |-> [u \in 1..Len(c.unique) |-> identityKey(c.unique[u])],
         totalSeen |-> c.totalSeen,
         uniqueCount |-> c.uniqueCount,
         visibleCount |-> c.visibleCount,
         hiddenCount |-> c.hiddenCount]

\* the collection after record r has been appended with the outcome of a
\* fusion call attached
AppendFused(r, cdp) ==
    Append(allLocators, AttachAdvanced(r, getAdvancedMetadata(Get(r, "css"), cdp)))

\* the records whose fusion call is in flight
InFlight ==
    {p.payload : p \in pending} \cup (IF pc = "walkAwait" THEN {walk.r} ELSE {})

\* C20: whatever the fusion call of a record in flight does (metadata, no
\* node, error indicator) and also if it is skipped, the record gets the
\* same identity key and the collection the same deduplication decisions:
\* same keys in the unique list, same counts.
C20_KeyIndependentOfFusion ==
    \A r \in InFlight :
        \A cdp \in SessionCdp :
            /\ identityKey(AttachAdvanced(r, getAdvancedMetadata(r.css, cdp)))
                 = identityKey(r)
            /\ Decisions(AppendFused(r, cdp)) = Decisions(Append(allLocators, r))

\* the fusion call of a record is in flight while the collection holds a
\* fused record with its key
C20_FusedAndInFlightSameKey ==
    \E r \in InFlight :
        \E i \in 1..Len(allLocators) :
            identityKey(allLocators[i]) = identityKey(r) /\ HasAdvanced(allLocators[i])

\* the chain of element n, top element first, n last
RECURSIVE ChainOf(_, _)
ChainOf(dom, n) == IF n = 0 THEN <<>> ELSE Append(ChainOf(dom, dom[n].parent), n)

PathChain == ChainOf(fin.dom, fin.n)

\* the positions of the chain whose element has an id
ChainIds == {k \in 1..Len(PathChain) : ElId(fin.dom[PathChain[k]]) # <<>>}

\* the position of the chain where the css path starts: the element with
\* an id nearest to n, the top element when there is none
ChainStart ==
    IF ChainIds = {} THEN 1 ELSE CHOOSE k \in ChainIds : \A j \in ChainIds : j <= k

\* C15: the css path starts at the nearest element of the chain of n (n
\* included) that has an id, with the segment tag#id; it has no segment
\* for any ancestor above that element, and one segment per level below
\* it, in root-first order, separated by " > ".
C15_StopsAtNearestId ==
    fout.run =>
        LET segs == Split(fout.css, " > ")
            el(k) == fin.dom[PathChain[ChainStart + k - 1]]
        IN  /\ Len(segs) = Len(PathChain) - ChainStart + 1
            /\ \A k \in 1..Len(segs) : Head(segs[k]) = LowerChunk(el(k).tagName)
            /\ ChainIds # {} =>
                  segs[1] = <<LowerChunk(el(1).tagName), "#">> \o ElId(el(1))
            /\ \A k \in 2..Len(segs) : \A j \in 1..Len(segs[k]) : segs[k][j] # "#"

\* the path of an element below an element with an id, which itself is
\* below another element with an id
C15_IdAboveNearestId ==
    /\ fout.run
    /\ Cardinality(ChainIds) >= 2
    /\ ChainStart < Len(PathChain)

\* the ordinal of element n: 1 plus its preceding siblings of the same tag
Ordinal(dom, n) ==
    1 + Cardinality({m \in 1..(n - 1) :
                        dom[m].parent = dom[n].parent /\ dom[m].tagName = dom[n].tagName})

\* C16: in a document the xpath of an element starts with "/", has one
\* step tag[ordinal] per level from the root element down to the element,
\* the ordinal being 1 plus the number of preceding siblings with the same
\* tag name, and no other element of the document has the same xpath.
C16_XPathAbsoluteAndUnique ==
    (fout.run /\ fin.attached) =>
        LET steps == Split(Tail(fout.xpath), "/")
        IN  /\ Head(fout.xpath) = "/"
            /\ Len(steps) = Len(PathChain)
            /\ steps[1] = <<"html", "[", "1", "]">>
            /\ \A k \in 1..Len(steps) :
                  steps[k] = <<LowerChunk(fin.dom[PathChain[k]].tagName), "[",
                               Digits[Ordinal(fin.dom, PathChain[k])], "]">>
            /\ \A m \in 1..Len(fin.dom) :
                  m # fin.n => absoluteXPath(fin.dom, m) # fout.xpath

\* the xpath of an element that has a preceding sibling of its own tag
\* and a preceding sibling of another tag
C16_SecondOfItsTag ==
    /\ fout.run
    /\ fin.attached
    /\ \E m \in PrevSiblings(fin.dom, fin.n) :
          fin.dom[m].tagName = fin.dom[fin.n].tagName
    /\ \E m \in PrevSiblings(fin.dom, fin.n) :
          fin.dom[m].tagName # fin.dom[fin.n].tagName

\* C17: for an element of a detached tree both selector functions return
\* the empty string.
C17_DetachedGivesEmpty ==
    (fout.run /\ ~fin.attached) => (fout.css = <<>> /\ fout.xpath = <<>>)

\* C21: with timeout > 0 the inactivity watcher issues the stop signal only
\* when more than timeout seconds have passed since the last accepted
\* pointer capture: right after a capture that passed the filter the
\* timeout is not exceeded, so the watcher is not due.
C21_AcceptedCaptureRestartsIdle ==
    [][(/\ clicks' = clicks + 1
        /\ (pending' # pending \/ allLocators' # allLocators)
        /\ cfg.timeout > 0)
       => ~expired']_vars

\* C22: once the stop signal was taken the snapshot exists and reports the
\* four counts as natural numbers computed from the records that had
\* arrived, whatever the outcome of their fusion calls; when no record had
\* arrived the four counts are 0 and the unique list is empty.
C22_StopEndsWithCounts ==
    pc \in {"cleanup", "done"} =>
        /\ snapshot.taken
        /\ {snapshot.totalSeen, snapshot.uniqueCount, snapshot.visibleCount,
            snapshot.hiddenCount} \subseteq Nat
        /\ snapshot.totalSeen <= Len(allLocators)
        /\ snapshot.unique = deduplicate(Arrived)
        /\ snapshot.uniqueCount = Len(snapshot.unique)
        /\ snapshot.totalSeen = 0 =>
              /\ snapshot.unique = <<>>
              /\ snapshot.uniqueCount = 0
              /\ snapshot.visibleCount = 0
              /\ snapshot.hiddenCount = 0

\* a session that ended after two or more records arrived, the fusion call
\* of every one of them having failed
C22_EndedWithAllFusionsFailed ==
    /\ pc = "done"
    /\ snapshot.taken
    /\ snapshot.totalSeen >= 2
    /\ \A i \in 1..snapshot.totalSeen :
          hist[i].fusion = "threw" /\ HasErrorIndicator(allLocators[i])

\* C23: a pointer capture whose payload is null or does not parse changes
\* neither the collection, the prompts, the suspended handlers nor the
\* position of the session; a capture that parses and passes the filter is
\* accepted whatever failed before it; and when the full-page walk fails
\* the session goes on to the hidden-element walk (if enabled) or to the
\* stop wait with the collection as it was.
C23_FailuresIsolated ==
    [][/\ \A n \in 1..Len(Page), body \in {"null", "unparsable"} :
             Capture(n, body) =>
                 UNCHANGED <<allLocators, allPrompts, pending, pc, walk,
                             snapshot, hist>>
       /\ \A n \in 1..Len(Page) :
             (/\ Capture(n, "element")
              /\ elementMatchesFilterNode(serializeElement(Page, n), cfg.tagFilter))
             => \/ Len(allLocators') = Len(allLocators) + 1
                \/ Cardinality(pending') = Cardinality(pending) + 1
       /\ AutoEvalReturn(FALSE) =>
             /\ UNCHANGED <<allLocators, allPrompts, pending>>
             /\ pc' = IF cfg.scanHidden THEN "hiddenEval" ELSE "waitStop"]_vars

\* a session without filter whose full-page walk failed, whose hidden walk
\* then added records, whose first click failed in the handler and whose
\* second click was accepted
C23_AcceptedAfterFailures ==
    /\ cfg.installed /\ cfg.autoExtract /\ cfg.scanHidden
    /\ cfg.tagFilter = <<>>
    /\ pc \notin {"autoEval", "walkAwait", "hiddenEval"}
    /\ \A i \in 1..Len(hist) : hist[i].src # "auto"
    /\ \E i \in 1..Len(hist) : hist[i].src = "hidden"
    /\ clicks = 2
    /\ \A p \in pending : p.click # 1
    /\ \A i \in 1..Len(hist) : hist[i].src = "click" => hist[i].click = 2
    /\ \E i \in 1..Len(hist) : hist[i].src = "click"

\* the records made from element n of the walked document, by any producer
RecordsOf(n) ==
    {fout.scan[i] : i \in {j \in 1..Len(fout.autoOf) : fout.autoOf[j] = n}}
    \cup {fout.fallback[i] : i \in {j \in 1..Len(fout.autoOf) : fout.autoOf[j] = n}}
    \cup {fout.hidden[i] : i \in {j \in 1..Len(fout.hiddenOf) : fout.hiddenOf[j] = n}}
    \cup {fout.click[m] : m \in {k \in DOMAIN fout.click : k = n}}

\* C24: two records made from two distinct elements of the same static page
\* never have the same identity key, whichever producers made them.
C24_DistinctElementsDistinctKeys ==
    fout.run =>
        \A m, n \in 1..Len(fin.dom) :
            m # n =>
                \A r \in RecordsOf(m), q \in RecordsOf(n) :
                    identityKey(r) # identityKey(q)

\* C25: every element of a static document that matches the filter is
\* emitted by exactly one of the two walks: by the full-page walk if it is
\* visible (a box with both dimensions positive and a style that shows
\* it), by the hidden-element walk otherwise.
C25_EmittedByExactlyOneWalk ==
    fout.run =>
        \A n \in 1..Len(fin.dom) :
            elementMatchesFilter(fin.dom[n], ScanAllowed(fin.csv)) =>
                LET inAuto == \E j \in 1..Len(fout.autoOf) : fout.autoOf[j] = n
                    inHidden == \E j \in 1..Len(fout.hiddenOf) : fout.hiddenOf[j] = n
                    shown == /\ fin.dom[n].w > 0 /\ fin.dom[n].h > 0
                             /\ fin.dom[n].display # "none"
                             /\ fin.dom[n].visibility # "hidden"
                             /\ fin.dom[n].opacity # "0"
                IN  /\ inAuto <=> shown
                    /\ inHidden <=> ~shown

Appended(kind) == Cardinality({i \in 1..Len(hist) : hist[i].src = kind})

\* the records the page function of the full-page walk returns on the page
AutoResults ==
    IF cfg.installed THEN locatorScanAll(Page, FiltersCsv)
    ELSE fallbackWalk(Page, FiltersCsv)

\* C27: the stop signal is taken only at the stop wait, when no walk is
\* running: each walk has then appended either nothing (it was not enabled
\* or its page function failed) or all the records its page function
\* returned, each after its awaited fusion; these records are counted in
\* totalSeen, and no walk record is appended after the snapshot.
C27_StopAfterWalks ==
    [][/\ SnapshotStep =>
             /\ pc = "waitStop"
             /\ walk = NoWalk
             /\ Appended("auto") \in {0, Len(AutoResults)}
             /\ Appended("hidden") \in {0, Len(hiddenScan(Page, FiltersCsv))}
             /\ ~cfg.autoExtract => Appended("auto") = 0
             /\ ~cfg.scanHidden => Appended("hidden") = 0
             /\ \A i \in 1..Len(hist) :
                   hist[i].src \in {"auto", "hidden"} => i <= snapshot'.totalSeen
       /\ snapshot.taken =>
             \A i \in 1..Len(hist') :
                 hist'[i].src \in {"auto", "hidden"} => i <= snapshot.totalSeen]_vars

\* a snapshot that counts the records of both walks, those of the full-page
\* walk appended after their awaited fusion calls
C27_BothWalksInSnapshot ==
    /\ snapshot.taken
    /\ cfg.autoExtract /\ cfg.scanHidden /\ cfg.cdp
    /\ Appended("auto") = Len(AutoResults)
    /\ Appended("auto") >= 2
    /\ Appended("hidden") >= 1
    /\ \A i \in 1..Len(hist) : hist[i].src = "auto" => hist[i].fusion # "notRequested"
    /\ snapshot.totalSeen >= Appended("auto") + Appended("hidden")

====
